---- MODULE Spec2Model ----
(***************************************************************************)
(* Credential store of perplexity-cli: load_config / save_config /         *)
(* sanitize_api_key of src/src/perplexity_cli/config.py.                   *)
(*                                                                         *)
(* Text is a sequence of Unicode code points, a file is a sequence of      *)
(* bytes (0..255).  Decoding, JSON parsing, JSON serialisation and the     *)
(* NFKD normalisation are computed on those sequences.                     *)
(***************************************************************************)
EXTENDS Integers, Sequences, FiniteSets, TLC

\* Longest credential string given to the program (environment value,
\* save_config argument).
MaxKeyLen == 2

\* ------------------------------------------------------------------------
\* Sequences
\* ------------------------------------------------------------------------

RECURSIVE SeqsUpTo(_, _)
\* All sequences over S of length <= n.
SeqsUpTo(S, n) ==
    IF n = 0 THEN {<<>>}
    ELSE LET shorter == SeqsUpTo(S, n - 1)
         IN  shorter \cup {Append(s, c) : s \in shorter, c \in S}

RECURSIVE Flatten(_)
\* ''.join(parts)
Flatten(parts) ==
    IF parts = <<>> THEN <<>> ELSE Head(parts) \o Flatten(Tail(parts))

\* ------------------------------------------------------------------------
\* sanitize_api_key (config.py:79-91)
\* ------------------------------------------------------------------------

\* Compatibility decomposition of one code point, unicodedata.normalize
\* ('NFKD', c), for the code points that credential strings and decoded
\* files of this model contain.  Code points without a decomposition map to
\* themselves.  (NFKD also reorders runs of combining marks; every
\* combining mark is >= 128 and ASCII characters are never moved.)
NFKDChar(c) ==
    CASE c = 233   -> <<101, 769>>      \* e-acute      -> e, U+0301
      [] c = 195   -> <<65, 771>>       \* A-tilde      -> A, U+0303
      [] c = 239   -> <<105, 776>>      \* i-diaeresis  -> i, U+0308
      [] c = 255   -> <<121, 776>>      \* y-diaeresis  -> y, U+0308
      [] c = 160   -> <<32>>            \* no-break space -> space
      [] c = 64257 -> <<102, 105>>      \* ligature fi  -> f, i
      [] OTHER     -> <<c>>

\* unicodedata.normalize('NFKD', api_key)
NFKD(s) == Flatten([i \in 1..Len(s) |-> NFKDChar(s[i])])

\* ord(c) < 128
IsAsciiChar(c) == c < 128

\* A filter that deletes from the list it iterates over: the character
\* after each deleted one is skipped.
RECURSIVE FilterSkipping(_)
FilterSkipping(s) ==
    IF s = <<>> THEN <<>>
    ELSE IF Head(s) < 128 THEN <<Head(s)>> \o FilterSkipping(Tail(s))
    ELSE IF Len(s) = 1 THEN <<>>
    ELSE <<s[2]>> \o FilterSkipping(Tail(Tail(s)))

\* A filter that also drops control characters.
FilterPrintable(s) == SelectSeq(s, LAMBDA c : c >= 32 /\ c < 128)

\* ''.join(c for c in api_key if ord(c) < 128)
FilterAscii(s) == SelectSeq(s, IsAsciiChar)

\* sanitize_api_key(api_key)
sanitize_api_key(s) ==
    IF s = <<>> THEN <<>> ELSE FilterAscii(NFKD(s))

IsAscii(s) == \A i \in 1..Len(s) : s[i] < 128

\* ------------------------------------------------------------------------
\* bytes.decode(encoding, errors='replace') (config.py:43, 56)
\* ------------------------------------------------------------------------

\* U+FFFD, what errors='replace' puts for undecodable input.
Replacement == <<65533>>

\* Number of continuation bytes a UTF-8 lead byte announces; -1 for a byte
\* that cannot start a sequence.
Utf8Need(b) ==
    CASE b < 128               -> 0
      [] b >= 194 /\ b <= 223  -> 1
      [] b >= 224 /\ b <= 239  -> 2
      [] b >= 240 /\ b <= 244  -> 3
      [] OTHER                 -> -1

\* Range allowed for the byte after lead byte b (overlong forms, surrogates
\* and code points above U+10FFFF are excluded).
Utf8SecondLo(b) == IF b = 224 THEN 160 ELSE IF b = 240 THEN 144 ELSE 128
Utf8SecondHi(b) == IF b = 237 THEN 159 ELSE IF b = 244 THEN 143 ELSE 191

\* Is the k-th continuation byte of the sequence starting at i present and
\* in range?
Utf8ContOk(bs, i, k) ==
    /\ i + k <= Len(bs)
    /\ IF k = 1
       THEN bs[i + 1] >= Utf8SecondLo(bs[i]) /\ bs[i + 1] <= Utf8SecondHi(bs[i])
       ELSE bs[i + k] >= 128 /\ bs[i + k] <= 191

\* Number of bytes, lead included, of the longest well-formed prefix of the
\* sequence starting at i.
Utf8Good(bs, i) ==
    LET n == Utf8Need(bs[i])
    IN  IF n <= 0 THEN 1
        ELSE IF ~Utf8ContOk(bs, i, 1) THEN 1
        ELSE IF n = 1 THEN 2
        ELSE IF ~Utf8ContOk(bs, i, 2) THEN 2
        ELSE IF n = 2 THEN 3
        ELSE IF ~Utf8ContOk(bs, i, 3) THEN 3
        ELSE 4

Utf8CodePoint(bs, i, n) ==
    CASE n = 0 -> bs[i]
      [] n = 1 -> (bs[i] - 192) * 64 + (bs[i + 1] - 128)
      [] n = 2 -> (bs[i] - 224) * 4096 + (bs[i + 1] - 128) * 64
                    + (bs[i + 2] - 128)
      [] n = 3 -> (bs[i] - 240) * 262144 + (bs[i + 1] - 128) * 4096
                    + (bs[i + 2] - 128) * 64 + (bs[i + 3] - 128)

RECURSIVE Utf8DecodeFrom(_, _)
Utf8DecodeFrom(bs, i) ==
    IF i > Len(bs) THEN <<>>
    ELSE LET n    == Utf8Need(bs[i])
             good == Utf8Good(bs, i)
         IN  IF n >= 0 /\ good = n + 1
             THEN <<Utf8CodePoint(bs, i, n)>> \o Utf8DecodeFrom(bs, i + good)
             ELSE Replacement \o Utf8DecodeFrom(bs, i + good)

\* content.decode('utf-8', errors='replace')
DecodeUtf8(bs) == Utf8DecodeFrom(bs, 1)

RECURSIVE Utf8ValidFrom(_, _)
Utf8ValidFrom(bs, i) ==
    \/ i > Len(bs)
    \/ /\ Utf8Need(bs[i]) >= 0
       /\ Utf8Good(bs, i) = Utf8Need(bs[i]) + 1
       /\ Utf8ValidFrom(bs, i + Utf8Good(bs, i))

\* The bytes are well-formed UTF-8 (a strict decode succeeds).
Utf8Valid(bs) == Utf8ValidFrom(bs, 1)

\* content.decode('latin-1', errors='replace'): every byte is its code point.
DecodeLatin1(bs) == bs

\* Windows-1252 for the bytes 0x80..0x9F; 65533 marks the five bytes the
\* code page leaves undefined.
Cp1252High ==
    << 8364, 65533, 8218, 402, 8222, 8230, 8224, 8225,
       710, 8240, 352, 8249, 338, 65533, 381, 65533,
       65533, 8216, 8217, 8220, 8221, 8226, 8211, 8212,
       732, 8482, 353, 8250, 339, 65533, 382, 376 >>

\* content.decode('cp1252', errors='replace')
DecodeCp1252(bs) ==
    [i \in 1..Len(bs) |->
        IF bs[i] >= 128 /\ bs[i] <= 159 THEN Cp1252High[bs[i] - 127]
        ELSE bs[i]]

\* content.decode('ascii', errors='replace')
DecodeAscii(bs) ==
    [i \in 1..Len(bs) |-> IF bs[i] < 128 THEN bs[i] ELSE 65533]

\* encodings = ['utf-8', 'latin-1', 'cp1252', 'ascii']
encodings == <<"utf-8", "latin-1", "cp1252", "ascii">>

Decode(bs, encoding) ==
    CASE encoding = "utf-8"   -> DecodeUtf8(bs)
      [] encoding = "latin-1" -> DecodeLatin1(bs)
      [] encoding = "cp1252"  -> DecodeCp1252(bs)
      [] encoding = "ascii"   -> DecodeAscii(bs)

\* bytes([b if b < 128 else ord(' ') for b in content])
CleanBytes(bs) == [i \in 1..Len(bs) |-> IF bs[i] < 128 THEN bs[i] ELSE 32]

\* One code point as UTF-8 (open(..., encoding="utf-8") on write).
Utf8EncodeChar(c) ==
    CASE c < 128     -> <<c>>
      [] c < 2048    -> <<192 + (c \div 64), 128 + (c % 64)>>
      [] c < 65536   -> <<224 + (c \div 4096), 128 + ((c \div 64) % 64),
                          128 + (c % 64)>>
      [] OTHER       -> <<240 + (c \div 262144), 128 + ((c \div 4096) % 64),
                          128 + ((c \div 64) % 64), 128 + (c % 64)>>

Utf8Encode(s) == Flatten([i \in 1..Len(s) |-> Utf8EncodeChar(s[i])])

\* ------------------------------------------------------------------------
\* JSON values and json.loads (config.py:44, 56)
\* ------------------------------------------------------------------------

\* Python values json.loads returns: None, bool, int, str, list, dict.  A
\* dict is the sequence of its <<key, value>> members in file order.
JNull      == [t |-> "null"]
JBool(b)   == [t |-> "bool", b |-> b]
JNum(n)    == [t |-> "num", n |-> n]
JStr(s)    == [t |-> "str", s |-> s]
JArr(xs)   == [t |-> "arr", items |-> xs]
JObj(ms)   == [t |-> "obj", members |-> ms]

\* A failed parse (json.JSONDecodeError).
ParseFail == [ok |-> FALSE, v |-> JNull, pos |-> 0]
ParseOk(v, pos) == [ok |-> TRUE, v |-> v, pos |-> pos]

\* json.decoder.WHITESPACE: space, tab, line feed, carriage return.
JsonWs == {32, 9, 10, 13}

\* First index >= i that holds no whitespace (Len(s) + 1 at the end).
SkipWs(s, i) ==
    CHOOSE j \in i..(Len(s) + 1) :
        /\ \A k \in i..(j - 1) : s[k] \in JsonWs
        /\ (j = Len(s) + 1 \/ s[j] \notin JsonWs)

At(s, i, c) == i <= Len(s) /\ s[i] = c

StartsWith(s, i, lit) ==
    /\ i + Len(lit) - 1 <= Len(s)
    /\ SubSeq(s, i, i + Len(lit) - 1) = lit

HexVal(c) ==
    CASE c >= 48 /\ c <= 57  -> c - 48
      [] c >= 97 /\ c <= 102 -> c - 87
      [] c >= 65 /\ c <= 70  -> c - 55
      [] OTHER               -> -1

\* The character a one-letter escape stands for; -1 for an invalid escape.
Unescape(e) ==
    CASE e = 34  -> 34      \* \"
      [] e = 92  -> 92      \* \\
      [] e = 47  -> 47      \* \/
      [] e = 98  -> 8       \* \b
      [] e = 102 -> 12      \* \f
      [] e = 110 -> 10      \* \n
      [] e = 114 -> 13      \* \r
      [] e = 116 -> 9       \* \t
      [] OTHER   -> -1

RECURSIVE ScanString(_, _, _)
\* json.decoder.scanstring, strict: s[i] is the character after the opening
\* quote, acc the characters read so far.  (\uD800-\uDBFF escapes followed
\* by a low surrogate escape are paired by the library; no file of this
\* model holds one.)
ScanString(s, i, acc) ==
    IF i > Len(s) THEN ParseFail
    ELSE IF s[i] = 34 THEN ParseOk(JStr(acc), i + 1)
    ELSE IF s[i] = 92 THEN
        IF i + 1 > Len(s) THEN ParseFail
        ELSE IF s[i + 1] = 117 THEN
            IF /\ i + 5 <= Len(s)
               /\ \A k \in 2..5 : HexVal(s[i + k]) >= 0
            THEN ScanString(s, i + 6,
                     Append(acc, HexVal(s[i + 2]) * 4096 + HexVal(s[i + 3]) * 256
                                 + HexVal(s[i + 4]) * 16 + HexVal(s[i + 5])))
            ELSE ParseFail
        ELSE IF Unescape(s[i + 1]) >= 0
             THEN ScanString(s, i + 2, Append(acc, Unescape(s[i + 1])))
             ELSE ParseFail
    ELSE IF s[i] < 32 THEN ParseFail      \* invalid control character
    ELSE ScanString(s, i + 1, Append(acc, s[i]))

IsDigit(c) == c >= 48 /\ c <= 57

RECURSIVE DigitsEnd(_, _)
\* First index >= i that holds no digit.
DigitsEnd(s, i) ==
    IF i <= Len(s) /\ IsDigit(s[i]) THEN DigitsEnd(s, i + 1) ELSE i

RECURSIVE DigitsValue(_, _, _)
DigitsValue(s, i, j) ==
    IF j < i THEN 0 ELSE DigitsValue(s, i, j - 1) * 10 + (s[j] - 48)

\* json.scanner.NUMBER_RE, integer part: -?(0|[1-9][0-9]*).  (Fraction and
\* exponent parts, NaN and Infinity occur in no file of this model.)
ScanNumber(s, i) ==
    LET neg == At(s, i, 45)
        d   == IF neg THEN i + 1 ELSE i
    IN  IF ~(d <= Len(s) /\ IsDigit(s[d])) THEN ParseFail
        ELSE LET e == IF s[d] = 48 THEN d + 1 ELSE DigitsEnd(s, d)
                 n == DigitsValue(s, d, e - 1)
             IN  ParseOk(JNum(IF neg THEN 0 - n ELSE n), e)

RECURSIVE ParseValue(_, _), ParseMembers(_, _, _), ParseElements(_, _, _)

\* json.scanner.scan_once at index i.
ParseValue(s, i) ==
    IF i > Len(s) THEN ParseFail
    ELSE CASE s[i] = 34 -> ScanString(s, i + 1, <<>>)
           [] s[i] = 123 ->
                LET j == SkipWs(s, i + 1)
                IN  IF At(s, j, 125) THEN ParseOk(JObj(<<>>), j + 1)
                    ELSE ParseMembers(s, j, <<>>)
           [] s[i] = 91 ->
                LET j == SkipWs(s, i + 1)
                IN  IF At(s, j, 93) THEN ParseOk(JArr(<<>>), j + 1)
                    ELSE ParseElements(s, j, <<>>)
           [] s[i] = 110 ->
                IF StartsWith(s, i, <<110, 117, 108, 108>>)
                THEN ParseOk(JNull, i + 4) ELSE ParseFail
           [] s[i] = 116 ->
                IF StartsWith(s, i, <<116, 114, 117, 101>>)
                THEN ParseOk(JBool(TRUE), i + 4) ELSE ParseFail
           [] s[i] = 102 ->
                IF StartsWith(s, i, <<102, 97, 108, 115, 101>>)
                THEN ParseOk(JBool(FALSE), i + 5) ELSE ParseFail
           [] s[i] = 45 \/ IsDigit(s[i]) -> ScanNumber(s, i)
           [] OTHER -> ParseFail

\* json.decoder.JSONObject from the first member's opening quote at j.
ParseMembers(s, j, acc) ==
    IF ~At(s, j, 34) THEN ParseFail
    ELSE LET key == ScanString(s, j + 1, <<>>)
         IN  IF ~key.ok THEN ParseFail
             ELSE LET c == SkipWs(s, key.pos)
                  IN  IF ~At(s, c, 58) THEN ParseFail
                      ELSE LET val == ParseValue(s, SkipWs(s, c + 1))
                           IN  IF ~val.ok THEN ParseFail
                               ELSE LET e  == SkipWs(s, val.pos)
                                        ms == Append(acc, <<key.v.s, val.v>>)
                                    IN  IF At(s, e, 125)
                                        THEN ParseOk(JObj(ms), e + 1)
                                        ELSE IF At(s, e, 44)
                                        THEN ParseMembers(s, SkipWs(s, e + 1), ms)
                                        ELSE ParseFail

\* json.decoder.JSONArray from the first element at j.
ParseElements(s, j, acc) ==
    LET val == ParseValue(s, j)
    IN  IF ~val.ok THEN ParseFail
        ELSE LET e  == SkipWs(s, val.pos)
                 xs == Append(acc, val.v)
             IN  IF At(s, e, 93) THEN ParseOk(JArr(xs), e + 1)
                 ELSE IF At(s, e, 44)
                 THEN ParseElements(s, SkipWs(s, e + 1), xs)
                 ELSE ParseFail

\* json.loads(text): one value between optional whitespace; a leading
\* U+FEFF and trailing data are errors.
json_loads(s) ==
    IF At(s, 1, 65279) THEN ParseFail
    ELSE LET r == ParseValue(s, SkipWs(s, 1))
         IN  IF r.ok /\ SkipWs(s, r.pos) = Len(s) + 1 THEN r ELSE ParseFail

\* "api_key"
ApiKeyName == <<97, 112, 105, 95, 107, 101, 121>>

\* key in d, for a dict d.
HasKey(obj, key) == \E i \in 1..Len(obj.members) : obj.members[i][1] = key

\* d[key]: the last member with that key (later duplicates replace earlier).
GetKey(obj, key) ==
    LET last == CHOOSE i \in 1..Len(obj.members) :
                    /\ obj.members[i][1] = key
                    /\ \A k \in (i + 1)..Len(obj.members) : obj.members[k][1] # key
    IN  obj.members[last][2]

\* ------------------------------------------------------------------------
\* Config.model_dump_json (config.py:77)
\* ------------------------------------------------------------------------

HexDigit(n) == IF n < 10 THEN 48 + n ELSE 87 + n

\* One character inside a JSON string literal.
EscapeChar(c) ==
    CASE c = 34  -> <<92, 34>>
      [] c = 92  -> <<92, 92>>
      [] c = 8   -> <<92, 98>>
      [] c = 9   -> <<92, 116>>
      [] c = 10  -> <<92, 110>>
      [] c = 12  -> <<92, 102>>
      [] c = 13  -> <<92, 114>>
      [] c < 32  -> <<92, 117, 48, 48, HexDigit(c \div 16), HexDigit(c % 16)>>
      [] OTHER   -> <<c>>

\* A serialiser that writes the characters between the quotes as they are.
RawJsonString(s) == <<34>> \o s \o <<34>>

JsonString(s) ==
    <<34>> \o Flatten([i \in 1..Len(s) |-> EscapeChar(s[i])]) \o <<34>>

\* config.model_dump_json(): {"api_key":"..."}
model_dump_json(api_key) ==
    <<123>> \o JsonString(ApiKeyName) \o <<58>> \o JsonString(api_key) \o <<125>>

\* ------------------------------------------------------------------------
\* Inputs
\* ------------------------------------------------------------------------

\* Characters of the credential strings the program is given:
\* a, ", line feed, e-acute (U+00E9), euro sign (U+20AC).
CredChars == {97, 34, 10, 233, 8364}

\* The values of PERPLEXITY_API_KEY and the credentials passed to
\* save_config.
CredStrings == SeqsUpTo(CredChars, MaxKeyLen)

\* Credential files left behind by earlier processes.
\* an empty file
FileEmpty ==
    <<>>
\* truncated JSON
FileTruncated ==
    <<123, 34, 97, 112, 105, 95, 107, 101, 121, 34, 58, 34, 97, 98>>
\* binary garbage
FileGarbage ==
    <<255, 254, 0, 128>>
\* null
FileNull ==
    <<110, 117, 108, 108>>
\* ["api_key"]
FileArray ==
    <<91, 34, 97, 112, 105, 95, 107, 101, 121, 34, 93>>
\* "api_key"
FileString ==
    <<34, 97, 112, 105, 95, 107, 101, 121, 34>>
\* -12
FileNumber ==
    <<45, 49, 50>>
\* true
FileTrue ==
    <<116, 114, 117, 101>>
\* {"k":"a"}
FileNoKey ==
    <<123, 34, 107, 34, 58, 34, 97, 34, 125>>
\* {"api_key":7}
FileKeyNumber ==
    <<123, 34, 97, 112, 105, 95, 107, 101, 121, 34, 58, 55, 125>>
\* {"api_key":0}
FileKeyZero ==
    <<123, 34, 97, 112, 105, 95, 107, 101, 121, 34, 58, 48, 125>>
\* {"api_key":null}
FileKeyNull ==
    <<123, 34, 97, 112, 105, 95, 107, 101, 121, 34, 58, 110, 117, 108,
    108, 125>>
\* {"api_key":false}
FileKeyFalse ==
    <<123, 34, 97, 112, 105, 95, 107, 101, 121, 34, 58, 102, 97, 108,
    115, 101, 125>>
\* {"api_key":["a"]}
FileKeyList ==
    <<123, 34, 97, 112, 105, 95, 107, 101, 121, 34, 58, 91, 34, 97,
    34, 93, 125>>
\* {"api_key":{}}
FileKeyDict ==
    <<123, 34, 97, 112, 105, 95, 107, 101, 121, 34, 58, 123, 125,
    125>>
\* whitespace and a second member
FileSpaced ==
    <<32, 123, 34, 97, 112, 105, 95, 107, 101, 121, 34, 32, 58, 32,
    34, 97, 98, 34, 32, 44, 10, 34, 107, 34, 58, 91, 49, 44, 32, 123,
    125, 93, 125, 10>>
\* the key twice
FileDuplicate ==
    <<123, 34, 97, 112, 105, 95, 107, 101, 121, 34, 58, 34, 97, 34,
    44, 34, 97, 112, 105, 95, 107, 101, 121, 34, 58, 34, 98, 34, 125>>
\* a, e-acute as UTF-8
FileUtf8 ==
    <<123, 34, 97, 112, 105, 95, 107, 101, 121, 34, 58, 34, 97, 195,
    169, 34, 125>>
\* a, e-acute as Latin-1, b: invalid UTF-8
FileLatin1 ==
    <<123, 34, 97, 112, 105, 95, 107, 101, 121, 34, 58, 34, 97, 233,
    98, 34, 125>>
\* euro sign as Windows-1252, a: invalid UTF-8
FileCp1252 ==
    <<123, 34, 97, 112, 105, 95, 107, 101, 121, 34, 58, 34, 128, 97,
    34, 125>>
\* escapes \u00e9 \n \" and a
FileEscaped ==
    <<123, 34, 97, 112, 105, 95, 107, 101, 121, 34, 58, 34, 92, 117,
    48, 48, 101, 57, 92, 110, 92, 34, 97, 34, 125>>
\* an invalid escape
FileBadEscape ==
    <<123, 34, 97, 112, 105, 95, 107, 101, 121, 34, 58, 34, 92, 120,
    97, 34, 125>>
\* UTF-8 byte order mark, then valid JSON
FileBom ==
    <<239, 187, 191, 123, 34, 97, 112, 105, 95, 107, 101, 121, 34, 58,
    34, 97, 98, 34, 125>>
\* valid JSON, then a byte 0xFF
FileHighOutside ==
    <<123, 34, 97, 112, 105, 95, 107, 101, 121, 34, 58, 34, 97, 34,
    125, 255>>
\* high bytes between the tokens and in the string
FileHighBetween ==
    <<123, 160, 34, 97, 112, 105, 95, 107, 101, 121, 34, 58, 233, 34,
    97, 195, 169, 34, 125>>
\* a raw line feed inside the string
FileControl ==
    <<123, 34, 97, 112, 105, 95, 107, 101, 121, 34, 58, 34, 97, 10,
    98, 34, 125>>
\* data after the object
FileExtra ==
    <<123, 34, 97, 112, 105, 95, 107, 101, 121, 34, 58, 34, 97, 34,
    125, 120>>
\* a trailing comma
FileTrailingComma ==
    <<123, 34, 97, 112, 105, 95, 107, 101, 121, 34, 58, 34, 97, 34,
    44, 125>>
\* a number with a leading zero
FileLeadingZero ==
    <<123, 34, 97, 112, 105, 95, 107, 101, 121, 34, 58, 48, 49, 125>>
\* byte order mark, then null
FileNullBom ==
    <<239, 187, 191, 110, 117, 108, 108>>

InheritedFiles ==
    { FileEmpty, FileTruncated, FileGarbage, FileNull, FileArray,
      FileString, FileNumber, FileTrue, FileNoKey, FileKeyNumber,
      FileKeyZero, FileKeyNull, FileKeyFalse, FileKeyList, FileKeyDict,
      FileSpaced, FileDuplicate, FileUtf8, FileLatin1, FileCp1252,
      FileEscaped, FileBadEscape, FileBom, FileHighOutside,
      FileHighBetween, FileControl, FileExtra, FileTrailingComma,
      FileLeadingZero, FileNullBom }

\* Conditions of the file system an invocation can meet:
\*   ok       every call succeeds
\*   nomkdir  the directory cannot be created (PermissionError from mkdir
\*            when it does not exist yet)
\*   nowrite  the file cannot be opened for writing (PermissionError from
\*            open(..., "w"), nothing is truncated)
\*   full     the file opens for writing, the write fails (OSError ENOSPC)
\*   noread   the file cannot be opened for reading (PermissionError)
FsModes == {"ok", "nomkdir", "nowrite", "full", "noread"}

\* ------------------------------------------------------------------------
\* load_config lines 61-68: sanitize the loaded key, validate, outer except
\* ------------------------------------------------------------------------

\* bool(v)
Truthy(v) ==
    CASE v.t = "null" -> FALSE
      [] v.t = "bool" -> v.b
      [] v.t = "num"  -> v.n # 0
      [] v.t = "str"  -> v.s # <<>>
      [] v.t = "arr"  -> v.items # <<>>
      [] v.t = "obj"  -> v.members # <<>>

\* sub in s, for strings.
IsSubstring(sub, s) ==
    \E i \in 1..(Len(s) - Len(sub) + 1) : SubSeq(s, i, i + Len(sub) - 1) = sub

\* d[key] = val
SetKey(obj, key, val) ==
    JObj([i \in 1..Len(obj.members) |->
             IF obj.members[i][1] = key THEN <<key, val>> ELSE obj.members[i]])

\* An exception raised inside the try block of load_config.
Raised == [raised |-> TRUE, v |-> JNull]
Passed(v) == [raised |-> FALSE, v |-> v]

\* Lines 62-63:
\*   if "api_key" in config_data and config_data["api_key"]:
\*       config_data["api_key"] = sanitize_api_key(config_data["api_key"])
\* `in` raises TypeError on None, bool and int; indexing a str or a list
\* with "api_key" raises TypeError; sanitize_api_key raises TypeError
\* (unicodedata.normalize) on a truthy value that is not a str.
SanitizeLoaded(v) ==
    CASE v.t \in {"null", "bool", "num"} -> Raised
      [] v.t = "str" ->
            IF IsSubstring(ApiKeyName, v.s) THEN Raised ELSE Passed(v)
      [] v.t = "arr" ->
            IF \E i \in 1..Len(v.items) : v.items[i] = JStr(ApiKeyName)
            THEN Raised ELSE Passed(v)
      [] v.t = "obj" ->
            IF HasKey(v, ApiKeyName) /\ Truthy(GetKey(v, ApiKeyName))
            THEN LET val == GetKey(v, ApiKeyName)
                 IN  IF val.t = "str"
                     THEN Passed(SetKey(v, ApiKeyName,
                                        JStr(sanitize_api_key(val.s))))
                     ELSE Raised
            ELSE Passed(v)

\* Line 65, Config.model_validate(config_data): the input must be a dict;
\* api_key, when present, must be a str (pydantic does not coerce other
\* types to str); other keys are ignored; a missing api_key takes the
\* default "".  A ValidationError otherwise.  The result is the api_key.
model_validate(v) ==
    IF v.t # "obj" THEN Raised
    ELSE IF ~HasKey(v, ApiKeyName) THEN Passed(JStr(<<>>))
    ELSE IF GetKey(v, ApiKeyName).t = "str" THEN Passed(GetKey(v, ApiKeyName))
    ELSE Raised

\* Lines 61-65 on the parsed config_data.
ValidateLoaded(v) ==
    LET s == SanitizeLoaded(v)
    IN  IF s.raised THEN Raised ELSE model_validate(s.v)

\* A load_config without the handler of lines 66-68.
NoOuterExcept(r) ==
    IF r.raised THEN [outcome |-> "raised", key |-> <<>>]
    ELSE [outcome |-> "returned", key |-> r.v.s]

\* Lines 66-68: except Exception -> warning, return Config().
OuterExcept(r) ==
    IF r.raised THEN [outcome |-> "returned", key |-> <<>>]
    ELSE [outcome |-> "returned", key |-> r.v.s]

\* An environment test made after sanitizing.
EnvIsSetAfterSanitize(e) == sanitize_api_key(e) # <<>>

\* Line 21: if env_api_key
EnvIsSet(e) == e # <<>>

\* An environment credential returned as it is.
EnvUnsanitized(e) == e

\* Lines 23-24: the credential taken from the environment.
EnvCredential(e) == sanitize_api_key(e)

\* A save_config that writes the key as it was given.
KeyUnsanitized(k) == k

\* Lines 74-75: if config.api_key: config.api_key = sanitize_api_key(...)
KeyForSave(k) == IF k # <<>> THEN sanitize_api_key(k) ELSE k

\* Line 77: the bytes f.write(config.model_dump_json()) puts in the file
\* opened with encoding="utf-8".
SavedBytes(k) == Utf8Encode(model_dump_json(k))

\* Lines 76-77: the file object opened with "w" starts at offset 0 and is
\* not in append mode; its bytes go to the file in one write when it is
\* closed and replace what is at offsets 0..len-1.  Bytes that somebody
\* else put beyond them stay.
WriteAtStart(f, bs) == bs \o SubSeq(f, Len(bs) + 1, Len(f))

\* ------------------------------------------------------------------------
\* State
\* ------------------------------------------------------------------------

VARIABLES
    dirExists,    \* CONFIG_DIR exists
    fileExists,   \* CONFIG_FILE exists
    file,         \* bytes of CONFIG_FILE (<<>> while it does not exist)
    fsMode,       \* condition of the file system, one of FsModes
    env,          \* PERPLEXITY_API_KEY of the running invocation; <<>> when
                  \* unset or empty
    op,           \* function the caller invoked: "none", "load", "save"
    pc,           \* position inside it
    arg,          \* config.api_key inside save_config
    enc,          \* index into encodings of the loop of line 38
    config_data,  \* config_data of load_config (JNull is None)
    result,       \* api_key of the Config load_config returned
    outcome,      \* "none", "returned", "raised"
    atCall,       \* the file system when the function was called
    fsLog,        \* file-system calls made since the function was called
    saved,        \* credential given to the latest save_config; valid while
                  \* that call returned and the file is as it left it
    writes,       \* times the running invocation opened the file for writing
    cmd,          \* command of the running invocation: "none" (a direct
                  \* call of load_config or save_config), "ask", "configure",
                  \* "debug"
    httpCalls,    \* client.post calls the running invocation made
    loaded,       \* configure, debug: config.api_key as load_config gave it
    entry,        \* configure: api_key, what Prompt.ask returned
    shown,        \* configure, debug: the masked_key printed
    report,       \* how the command ended, "none" while it runs
    reply,        \* ask: what client.post came back with, "none" before
    startExists,  \* CONFIG_FILE existed when the command started
    rpc,          \* position inside format_response
    codec,        \* encoding of the stream console.print writes to
    response,     \* response_data given to format_response
    content,      \* content, then ascii_content, of format_response
    out,          \* lines format_response has printed
    rraised,      \* an exception left format_response
    wpc,          \* two concurrent invocations: position of each inside
                  \* save_config
    wkey          \* config.api_key of each inside save_config

vars == << dirExists, fileExists, file, fsMode, env, op, pc, arg, enc,
           config_data, result, outcome, atCall, fsLog, saved, writes,
           cmd, httpCalls, loaded, entry, shown, report, reply,
           startExists, rpc, codec, response, content, out, rraised,
           wpc, wkey >>

\* The variables of the commands of cli.py.
cliVars == << cmd, httpCalls, loaded, entry, shown, report, reply,
             startExists >>

\* No command is running.
CliIdle ==
    /\ cmd = "none" /\ httpCalls = 0
    /\ loaded = <<>> /\ entry = <<>> /\ shown = <<>>
    /\ report = "none" /\ reply = "none" /\ startExists = FALSE

\* The variables of format_response.
renderVars == << rpc, codec, response, content, out, rraised >>

NoResponse == [shape |-> "none", model |-> <<>>, content |-> <<>>]

\* format_response is not running.
RenderIdle ==
    /\ rpc = "Idle" /\ codec = "utf-8" /\ response = NoResponse
    /\ content = <<>> /\ out = <<>> /\ rraised = FALSE

\* Two invocations that run at the same time.
Writers == {1, 2}

\* The variables of the two concurrent invocations.
raceVars == << wpc, wkey >>

\* No concurrent invocation is running.
RaceIdle ==
    /\ wpc = [p \in Writers |-> "Idle"]
    /\ wkey = [p \in Writers |-> <<>>]

\* What load_config and save_config do not touch.
extra == << cliVars, renderVars, raceVars >>

fsVars == << dirExists, fileExists, file >>
locals == << arg, enc, config_data, result, outcome >>

\* The variables of load_config and save_config.
configVars == << fsVars, fsMode, env, op, pc, locals, atCall, fsLog, saved,
                writes >>

NoCall == [dir |-> FALSE, exists |-> FALSE, content |-> <<>>]
NothingSaved == [valid |-> FALSE, key |-> <<>>]

TypeOK ==
    /\ dirExists \in BOOLEAN /\ fileExists \in BOOLEAN
    /\ fsMode \in FsModes
    /\ op \in {"none", "load", "save"}
    /\ pc \in {"Idle", "TryEnv", "TryFile", "FirstRun", "TryDecode",
               "AfterLoop", "TryByteRepair", "EmptyDefault", "Sanitize",
               "SaveMkdir", "SaveOpen", "SaveWrite", "Done",
               "Post", "Prompt", "End"}
    /\ enc \in 0..Len(encodings)
    /\ outcome \in {"none", "returned", "raised"}
    /\ (~fileExists => file = <<>>)
    /\ (fileExists => dirExists)

Init ==
    /\ \/ /\ fileExists = FALSE /\ file = <<>> /\ dirExists \in BOOLEAN
       \/ /\ fileExists = TRUE /\ file \in InheritedFiles /\ dirExists = TRUE
    /\ fsMode = "ok"
    /\ env = <<>>
    /\ op = "none" /\ pc = "Idle"
    /\ arg = <<>> /\ enc = 0 /\ config_data = JNull
    /\ result = <<>> /\ outcome = "none"
    /\ atCall = NoCall /\ fsLog = {}
    /\ saved = NothingSaved
    /\ writes = 0
    /\ CliIdle
    /\ RenderIdle
    /\ RaceIdle

\* ------------------------------------------------------------------------
\* Environment
\* ------------------------------------------------------------------------

\* Between invocations the condition of the file system changes
\* (permissions, free space).
Chmod(m) ==
    /\ pc = "Idle" /\ m # fsMode
    /\ fsMode' = m
    /\ UNCHANGED << fsVars, env, op, pc, locals, atCall, fsLog, saved >>
    /\ UNCHANGED << writes, extra >>

\* ------------------------------------------------------------------------
\* load_config (config.py:16-68)
\* ------------------------------------------------------------------------

\* An invocation whose environment holds e calls load_config().
call_load_config(e) ==
    /\ pc = "Idle"
    /\ env' = e /\ op' = "load" /\ pc' = "TryEnv"
    /\ atCall' = [dir |-> dirExists, exists |-> fileExists, content |-> file]
    /\ fsLog' = {}
    /\ UNCHANGED << fsVars, fsMode, locals, saved >>
    /\ UNCHANGED << writes, extra >>

\* Lines 19-24.
TryEnv ==
    /\ pc = "TryEnv"
    /\ IF EnvIsSet(env)
       THEN /\ result' = EnvCredential(env)
            /\ outcome' = "returned" /\ pc' = "Done"
       ELSE /\ pc' = "TryFile"
            /\ UNCHANGED << result, outcome >>
    /\ UNCHANGED << fsVars, fsMode, env, op, arg, enc, config_data, atCall,
                    fsLog, saved >>
    /\ UNCHANGED << writes, extra >>

\* Line 27: CONFIG_FILE.exists(); lines 35-36 when it does.
TryFile ==
    /\ pc = "TryFile"
    /\ fsLog' = fsLog \cup {"exists"}
    /\ IF fileExists
       THEN pc' = "TryDecode" /\ enc' = 1 /\ config_data' = JNull
       ELSE pc' = "FirstRun" /\ UNCHANGED << enc, config_data >>
    /\ UNCHANGED << fsVars, fsMode, env, op, arg, result, outcome, atCall,
                    saved >>
    /\ UNCHANGED << writes, extra >>

\* mkdir(parents=True, exist_ok=True) fails only when the directory has to
\* be created and cannot.
MkdirFails == fsMode = "nomkdir" /\ ~dirExists

\* An exception leaves the function the caller invoked.
Raise ==
    /\ pc' = "Done" /\ outcome' = "raised"

\* A first run that returns the fresh Config without saving it.
FirstRunNoSave ==
    /\ pc = "FirstRun"
    /\ fsLog' = fsLog \cup {"mkdir"}
    /\ IF MkdirFails
       THEN Raise /\ UNCHANGED << dirExists, result >>
       ELSE /\ dirExists' = TRUE /\ result' = <<>>
            /\ pc' = "Done" /\ outcome' = "returned"
    /\ UNCHANGED << fileExists, file, fsMode, env, op, arg, enc, config_data,
                    atCall, saved >>
    /\ UNCHANGED << writes, extra >>

\* Lines 28-30: mkdir, config = Config(), call save_config(config).
FirstRun ==
    /\ pc = "FirstRun"
    /\ fsLog' = fsLog \cup {"mkdir"}
    /\ IF MkdirFails
       THEN Raise /\ UNCHANGED << dirExists, arg >>
       ELSE /\ dirExists' = TRUE /\ arg' = <<>>
            /\ pc' = "SaveMkdir" /\ UNCHANGED outcome
    /\ UNCHANGED << fileExists, file, fsMode, env, op, enc, config_data,
                    result, atCall, saved >>
    /\ UNCHANGED << writes, extra >>

\* Lines 38-47, one turn of the loop: read the bytes, decode them with
\* encodings[enc], parse; on any exception continue with the next encoding.
TryDecode ==
    /\ pc = "TryDecode"
    /\ fsLog' = fsLog \cup {"read"}
    /\ LET r == IF fsMode = "noread" THEN ParseFail
                ELSE json_loads(Decode(file, encodings[enc]))
       IN  IF r.ok
           THEN config_data' = r.v /\ pc' = "AfterLoop" /\ UNCHANGED enc
           ELSE /\ UNCHANGED config_data
                /\ IF enc < Len(encodings)
                   THEN enc' = enc + 1 /\ pc' = "TryDecode"
                   ELSE pc' = "AfterLoop" /\ UNCHANGED enc
    /\ UNCHANGED << fsVars, fsMode, env, op, arg, result, outcome, atCall,
                    saved >>
    /\ UNCHANGED << writes, extra >>

\* Line 49: if config_data is None.
AfterLoop ==
    /\ pc = "AfterLoop"
    /\ pc' = IF config_data = JNull THEN "TryByteRepair" ELSE "Sanitize"
    /\ UNCHANGED << fsVars, fsMode, env, op, locals, atCall, fsLog, saved >>
    /\ UNCHANGED << writes, extra >>

\* Lines 51-59: read again, replace the bytes >= 128 by spaces, parse.  A
\* failing open is not inside the inner try: it reaches line 66.
TryByteRepair ==
    /\ pc = "TryByteRepair"
    /\ fsLog' = fsLog \cup {"read"}
    /\ IF fsMode = "noread"
       THEN /\ result' = OuterExcept(Raised).key
            /\ outcome' = OuterExcept(Raised).outcome
            /\ pc' = "Done" /\ UNCHANGED config_data
       ELSE LET r == json_loads(DecodeAscii(CleanBytes(file)))
            IN  /\ IF r.ok
                   THEN config_data' = r.v /\ pc' = "Sanitize"
                   ELSE pc' = "EmptyDefault" /\ UNCHANGED config_data
                /\ UNCHANGED << result, outcome >>
    /\ UNCHANGED << fsVars, fsMode, env, op, arg, enc, atCall, saved >>
    /\ UNCHANGED << writes, extra >>

\* Line 59: return Config().
EmptyDefault ==
    /\ pc = "EmptyDefault"
    /\ result' = <<>> /\ outcome' = "returned" /\ pc' = "Done"
    /\ UNCHANGED << fsVars, fsMode, env, op, arg, enc, config_data, atCall,
                    fsLog, saved >>
    /\ UNCHANGED << writes, extra >>

\* A load_config that saves the file again when sanitizing changed the
\* stored key.
SanitizeWriteBack ==
    /\ pc = "Sanitize"
    /\ LET r == OuterExcept(ValidateLoaded(config_data))
           changed == /\ config_data.t = "obj"
                      /\ HasKey(config_data, ApiKeyName)
                      /\ GetKey(config_data, ApiKeyName).t = "str"
                      /\ GetKey(config_data, ApiKeyName).s # r.key
       IN  IF changed
           THEN /\ arg' = r.key /\ pc' = "SaveMkdir"
                /\ UNCHANGED << result, outcome >>
           ELSE /\ result' = r.key /\ outcome' = r.outcome
                /\ pc' = "Done" /\ UNCHANGED arg
    /\ UNCHANGED << fsVars, fsMode, env, op, enc, config_data, atCall,
                    fsLog, saved >>
    /\ UNCHANGED << writes, extra >>

\* Lines 61-68.
Sanitize ==
    /\ pc = "Sanitize"
    /\ LET r == OuterExcept(ValidateLoaded(config_data))
       IN  result' = r.key /\ outcome' = r.outcome
    /\ pc' = "Done"
    /\ UNCHANGED << fsVars, fsMode, env, op, arg, enc, config_data, atCall,
                    fsLog, saved >>
    /\ UNCHANGED << writes, extra >>

\* ------------------------------------------------------------------------
\* save_config (config.py:70-77)
\* ------------------------------------------------------------------------

\* A caller passes Config(api_key=k) to save_config.
call_save_config(k) ==
    /\ pc = "Idle"
    /\ op' = "save" /\ pc' = "SaveMkdir" /\ arg' = k
    /\ atCall' = [dir |-> dirExists, exists |-> fileExists, content |-> file]
    /\ fsLog' = {}
    /\ saved' = [valid |-> FALSE, key |-> k]
    /\ UNCHANGED << fsVars, fsMode, env, enc, config_data, result, outcome >>
    /\ UNCHANGED << writes, extra >>

\* Line 72.
SaveMkdir ==
    /\ pc = "SaveMkdir"
    /\ fsLog' = fsLog \cup {"mkdir"}
    /\ IF MkdirFails
       THEN Raise /\ UNCHANGED dirExists
       ELSE dirExists' = TRUE /\ pc' = "SaveOpen" /\ UNCHANGED outcome
    /\ UNCHANGED << fileExists, file, fsMode, env, op, arg, enc, config_data,
                    result, atCall, saved >>
    /\ UNCHANGED << writes, extra >>

\* Lines 74-76: sanitize the key, open the file for writing, which creates
\* it or truncates it.
SaveOpen ==
    /\ pc = "SaveOpen"
    /\ arg' = KeyForSave(arg)
    /\ fsLog' = fsLog \cup {"open"}
    /\ IF fsMode = "nowrite"
       THEN Raise /\ UNCHANGED << fileExists, file, saved >>
       ELSE /\ fileExists' = TRUE /\ file' = <<>>
            /\ saved' = [saved EXCEPT !.valid = FALSE]
            /\ pc' = "SaveWrite" /\ UNCHANGED outcome
    /\ UNCHANGED << dirExists, fsMode, env, op, enc, config_data, result,
                    atCall >>
    /\ writes' = IF fsMode = "nowrite" THEN writes ELSE writes + 1
    /\ UNCHANGED extra

\* Line 77: write the JSON and close the file; then save_config returns,
\* and load_config (line 31) returns the Config it saved.
SaveWrite ==
    /\ pc = "SaveWrite"
    /\ fsLog' = fsLog \cup {"write"}
    /\ IF fsMode = "full"
       THEN Raise /\ UNCHANGED << file, result, saved >>
       ELSE /\ file' = WriteAtStart(file, SavedBytes(arg))
            /\ pc' = "Done" /\ outcome' = "returned"
            /\ result' = IF op = "load" THEN arg ELSE result
            /\ saved' = IF op = "save" THEN [saved EXCEPT !.valid = TRUE]
                        ELSE [valid |-> TRUE, key |-> arg]
    /\ UNCHANGED << dirExists, fileExists, fsMode, env, op, arg, enc,
                    config_data, atCall >>
    /\ UNCHANGED << writes, extra >>

\* The invocation ends.
Return ==
    /\ pc = "Done"
    /\ op' = "none" /\ pc' = "Idle" /\ env' = <<>>
    /\ arg' = <<>> /\ enc' = 0 /\ config_data' = JNull
    /\ result' = <<>> /\ outcome' = "none"
    /\ atCall' = NoCall /\ fsLog' = {}
    /\ saved' = IF saved.valid THEN saved ELSE NothingSaved
    /\ UNCHANGED << fsVars, fsMode >>
    /\ writes' = 0
    /\ UNCHANGED extra

Next ==
    \/ \E m \in FsModes : Chmod(m)
    \/ \E e \in CredStrings : call_load_config(e)
    \/ TryEnv
    \/ TryFile
    \/ FirstRun
    \/ TryDecode
    \/ AfterLoop
    \/ TryByteRepair
    \/ EmptyDefault
    \/ Sanitize
    \/ \E k \in CredStrings : call_save_config(k)
    \/ SaveMkdir
    \/ SaveOpen
    \/ SaveWrite
    \/ Return

Spec == Init /\ [][Next]_vars

\* ------------------------------------------------------------------------
\* format_response (formatters.py:14-55)
\* ------------------------------------------------------------------------

MaxTextLen == 2

\* unicodedata.normalize('NFKC', c) of one code point, for the code points
\* of RenderChars (none of them is a combining mark, so no composition
\* takes place between neighbours).
NFKCChar(c) ==
    CASE c = 160   -> <<32>>            \* no-break space -> space
      [] c = 64257 -> <<102, 105>>      \* ligature fi  -> f, i
      [] OTHER     -> <<c>>

\* Line 35: unicodedata.normalize('NFKC', content)
NFKC(s) == Flatten([i \in 1..Len(s) |-> NFKCChar(s[i])])

\* The encodings of the output stream.
Codecs == {"utf-8", "cp1252", "latin-1", "ascii"}

\* The stream's encoder (errors='strict') accepts code point c.
EncodableChar(c, e) ==
    CASE e = "utf-8"   -> TRUE
      [] e = "ascii"   -> c < 128
      [] e = "latin-1" -> c < 256
      [] e = "cp1252"  ->
            \/ c < 128
            \/ c >= 160 /\ c < 256
            \/ c # 65533 /\ \E i \in 1..Len(Cp1252High) : Cp1252High[i] = c

Encodable(s, e) == \A i \in 1..Len(s) : EncodableChar(s[i], e)

\* Line 49: content.encode('ascii', 'replace').decode('ascii'): a question
\* mark for every code point >= 128.
AsciiReplace(s) == [i \in 1..Len(s) |-> IF s[i] < 128 THEN s[i] ELSE 63]

\* Text of response texts and model names: a, e-acute (latin-1, cp1252),
\* the euro sign (cp1252 only), the ligature fi and a CJK character (utf-8
\* only).
RenderChars == {97, 233, 8364, 64257, 20013}

Responses ==
    [shape : {"ok", "nochoices"},
     model : {<<97>>, <<233>>, <<64257>>},
     content : SeqsUpTo(RenderChars, MaxTextLen)]

\* Line 41: "Response from {model}" (the markup tags are not characters of
\* the output).
ResponseFrom ==
    << 82, 101, 115, 112, 111, 110, 115, 101, 32, 102, 114, 111, 109,
       32 >>

Header(model) == ResponseFrom \o model

\* Line 42: the three characters of the string literal, U+00E2 U+201D
\* U+20AC, which console.width repeats.
RuleText == << 226, 8221, 8364 >>

\* Line 50.
NoticeText ==
    << 78, 111, 116, 101, 58, 32, 83, 111, 109, 101, 32, 99, 104, 97,
       114, 97, 99, 116, 101, 114, 115, 32, 99, 111, 117, 108, 100,
       110, 39, 116, 32, 98, 101, 32, 100, 105, 115, 112, 108, 97, 121,
       101, 100, 32, 112, 114, 111, 112, 101, 114, 108, 121, 46 >>

\* Line 53.
ErrorParsing ==
    << 69, 114, 114, 111, 114, 32, 112, 97, 114, 115, 105, 110, 103,
       32, 114, 101, 115, 112, 111, 110, 115, 101, 32, 102, 114, 111,
       109, 32, 80, 101, 114, 112, 108, 101, 120, 105, 116, 121, 32,
       65, 80, 73 >>

\* Line 54: "Error details: 'choices'".
ErrorDetails ==
    << 69, 114, 114, 111, 114, 32, 100, 101, 116, 97, 105, 108, 115,
       58, 32, 39, 99, 104, 111, 105, 99, 101, 115, 39 >>

\* Line 55: the dict as console.print shows it; of its characters only
\* those of the model name vary.
DictText(r) == <<123>> \o r.model \o <<125>>

\* console.print(text): the whole text goes to the stream in one write,
\* which the encoder accepts or refuses as a whole.
Emit(kind, text) == out' = Append(out, [kind |-> kind, text |-> text])

\* UnicodeEncodeError leaves format_response.
RenderRaise == rpc' = "Done" /\ rraised' = TRUE

\* A caller passes response r to format_response(r, show_raw=False) while
\* the output stream encodes with e.
call_format_response(r, e) ==
    /\ pc = "Idle" /\ rpc = "Idle"
    /\ response' = r /\ codec' = e /\ rpc' = "Extract"
    /\ UNCHANGED << content, out, rraised >>
    /\ UNCHANGED << configVars, cliVars, raceVars >>

\* Lines 29-38: take content and model out of the response (KeyError when
\* choices is missing), normalize the content.
extract ==
    /\ rpc = "Extract"
    /\ IF response.shape = "ok"
       THEN content' = NFKC(response.content) /\ rpc' = "Header"
       ELSE rpc' = "Error" /\ UNCHANGED content
    /\ UNCHANGED << codec, response, out, rraised >>
    /\ UNCHANGED << configVars, cliVars, raceVars >>

\* Line 41.
print_header ==
    /\ rpc = "Header"
    /\ IF Encodable(Header(response.model), codec)
       THEN /\ Emit("header", Header(response.model))
            /\ rpc' = "Rule" /\ UNCHANGED rraised
       ELSE RenderRaise /\ UNCHANGED out
    /\ UNCHANGED << codec, response, content >>
    /\ UNCHANGED << configVars, cliVars, raceVars >>

\* Line 42.
print_rule ==
    /\ rpc = "Rule"
    /\ IF Encodable(RuleText, codec)
       THEN /\ Emit("rule", RuleText)
            /\ rpc' = "Markdown" /\ UNCHANGED rraised
       ELSE RenderRaise /\ UNCHANGED out
    /\ UNCHANGED << codec, response, content >>
    /\ UNCHANGED << configVars, cliVars, raceVars >>

\* Lines 45-49: print the content; on UnicodeEncodeError compute
\* ascii_content.
print_markdown ==
    /\ rpc = "Markdown"
    /\ IF Encodable(content, codec)
       THEN Emit("content", content) /\ rpc' = "Done" /\ UNCHANGED content
       ELSE content' = AsciiReplace(content) /\ rpc' = "Notice"
            /\ UNCHANGED out
    /\ UNCHANGED << codec, response, rraised >>
    /\ UNCHANGED << configVars, cliVars, raceVars >>

\* Line 50.
print_notice ==
    /\ rpc = "Notice"
    /\ IF Encodable(NoticeText, codec)
       THEN Emit("notice", NoticeText) /\ rpc' = "Ascii" /\ UNCHANGED rraised
       ELSE RenderRaise /\ UNCHANGED out
    /\ UNCHANGED << codec, response, content >>
    /\ UNCHANGED << configVars, cliVars, raceVars >>

\* Line 51.
print_ascii ==
    /\ rpc = "Ascii"
    /\ IF Encodable(content, codec)
       THEN Emit("ascii", content) /\ rpc' = "Done" /\ UNCHANGED rraised
       ELSE RenderRaise /\ UNCHANGED out
    /\ UNCHANGED << codec, response, content >>
    /\ UNCHANGED << configVars, cliVars, raceVars >>

\* Lines 52-55: except (KeyError, IndexError).
print_error ==
    /\ rpc = "Error"
    /\ LET two == out \o << [kind |-> "error", text |-> ErrorParsing],
                            [kind |-> "error", text |-> ErrorDetails] >>
       IN  IF Encodable(DictText(response), codec)
           THEN /\ out' = Append(two, [kind |-> "error",
                                       text |-> DictText(response)])
                /\ rpc' = "Done" /\ UNCHANGED rraised
           ELSE out' = two /\ RenderRaise
    /\ UNCHANGED << codec, response, content >>
    /\ UNCHANGED << configVars, cliVars, raceVars >>

\* format_response is left.
format_return ==
    /\ rpc = "Done"
    /\ rpc' = "Idle" /\ codec' = "utf-8" /\ response' = NoResponse
    /\ content' = <<>> /\ out' = <<>> /\ rraised' = FALSE
    /\ UNCHANGED << configVars, cliVars, raceVars >>

NextRender ==
    \/ \E r \in Responses, e \in Codecs : call_format_response(r, e)
    \/ extract
    \/ print_header
    \/ print_rule
    \/ print_markdown
    \/ print_notice
    \/ print_ascii
    \/ print_error
    \/ format_return

\* format_response touches no file: one state of the file system is enough.
InitRender == Init /\ ~fileExists /\ ~dirExists

SpecRender == InitRender /\ [][NextRender]_vars

\* ------------------------------------------------------------------------
\* The commands ask, configure and debug (cli.py:53-158, api.py:29-97)
\* ------------------------------------------------------------------------

\* Values of PERPLEXITY_API_KEY the commands run with: unset, one that
\* sanitizes to the empty string, and keys of 1, 9 and 12 characters.
Key9 == << 97, 98, 99, 100, 101, 102, 103, 104, 105 >>
Key12 == << 112, 112, 108, 120, 45, 97, 98, 99, 100, 101, 102, 103 >>
CliEnvs == {<<>>, <<8364>>, <<97>>, Key9, Key12}

\* What the user types at the prompt of configure, stripped by Prompt.ask
\* (the empty string: only white space typed).
EntryChars == {97, 233, 8364}
Entries == SeqsUpTo(EntryChars, MaxKeyLen)

\* What client.post and the reading of its response come to: a 2xx
\* response with an answer; a 2xx response whose body is not the expected
\* JSON; a non-2xx response; a non-2xx response whose error field holds a
\* closing markup tag such as [/x]; a timeout after 30 s; a network error.
Replies == {"answer", "malformed", "status", "status_tag", "timeout",
            "network"}
Failures == {"status", "status_tag", "timeout", "network"}

\* A check of the credential that lets every credential pass.
KeyNeverMissing(k) == FALSE

\* api.py line 31: if not config.api_key
KeyMissing(k) == k = <<>>

\* A configure that saves whatever was entered.
AlwaysSave(e, l) == TRUE

\* cli.py line 105: if api_key != config.api_key
EntryDiffers(e, l) == e # l

\* s[:n]
Prefix(s, n) == SubSeq(s, 1, IF n < Len(s) THEN n ELSE Len(s))

\* s[-n:]
Suffix(s, n) == SubSeq(s, IF Len(s) > n THEN Len(s) - n + 1 ELSE 1, Len(s))

\* '*' * n: the empty string when n <= 0
Stars(n) == [i \in 1..n |-> 42]

\* cli.py lines 93 and 154:
\* f"{api_key[:5]}{'*' * (len(api_key) - 9)}{api_key[-4:]}"
masked_key(k) == Prefix(k, 5) \o Stars(Len(k) - 9) \o Suffix(k, 4)

\* console.print(f"[bold red]Error:[/bold red] {str(e)}") of cli.py line 84
\* parses the message as markup: a closing tag that closes nothing makes
\* it raise MarkupError instead of printing.
MarkupOk(r) == r # "status_tag"

\* A command starts with e in its environment and calls load_config().
StartLoad(e) ==
    /\ pc = "Idle" /\ rpc = "Idle"
    /\ env' = e /\ startExists' = fileExists
    /\ op' = "load" /\ pc' = "TryEnv"
    /\ atCall' = [dir |-> dirExists, exists |-> fileExists, content |-> file]
    /\ fsLog' = {}
    /\ UNCHANGED << fsVars, fsMode, locals, saved, writes >>
    /\ UNCHANGED << httpCalls, loaded, entry, shown, report, reply >>
    /\ UNCHANGED << renderVars, raceVars >>

\* The command is over: what it printed or the exception that ended it is
\* in report.
Finish(r) == report' = r /\ pc' = "End"

\* cli.py lines 66-69: ask without a question prints the help.
ask_help ==
    /\ pc = "Idle" /\ rpc = "Idle"
    /\ cmd' = "ask" /\ startExists' = fileExists
    /\ Finish("help")
    /\ UNCHANGED << fsVars, fsMode, env, op, locals, atCall, fsLog, saved,
                    writes >>
    /\ UNCHANGED << httpCalls, loaded, entry, shown, reply >>
    /\ UNCHANGED << renderVars, raceVars >>

\* cli.py lines 72-81, api.py line 29: ask with a question.
ask(e) ==
    /\ cmd' = "ask"
    /\ StartLoad(e)

\* api.py lines 29-35 once load_config is over.  An exception of
\* load_config and the ValueError of line 32 leave query_perplexity and are
\* caught at cli.py line 83, which prints the message.
ask_check_key ==
    /\ cmd = "ask" /\ op = "load" /\ pc = "Done"
    /\ IF outcome = "raised" THEN Finish("error")
       ELSE IF KeyMissing(result) THEN Finish("unconfigured")
       ELSE pc' = "Post" /\ UNCHANGED report
    /\ UNCHANGED << fsVars, fsMode, env, op, locals, atCall, fsLog, saved,
                    writes >>
    /\ UNCHANGED << cmd, httpCalls, loaded, entry, shown, reply,
                    startExists >>
    /\ UNCHANGED << renderVars, raceVars >>

\* api.py lines 58-97 and cli.py lines 82-84: the one client.post, then
\* format_response on a 2xx response.  HTTPStatusError becomes ValueError
\* (lines 88-97); timeouts, network errors and a body that is not JSON leave
\* query_perplexity as they are; all are caught at cli.py line 83.
ask_post(r) ==
    /\ cmd = "ask" /\ pc = "Post"
    /\ httpCalls' = httpCalls + 1
    /\ reply' = r
    /\ IF r = "answer" THEN Finish("answer")
       ELSE IF MarkupOk(r) THEN Finish("error")
       ELSE Finish("crash")
    /\ UNCHANGED << fsVars, fsMode, env, op, locals, atCall, fsLog, saved,
                    writes >>
    /\ UNCHANGED << cmd, loaded, entry, shown, startExists >>
    /\ UNCHANGED << renderVars, raceVars >>

\* cli.py line 89.
configure(e) ==
    /\ cmd' = "configure"
    /\ StartLoad(e)

\* cli.py lines 89-96 once load_config is over: an exception of load_config
\* ends the command; else the masked key or "No API key configured" is
\* printed.
configure_show ==
    /\ cmd = "configure" /\ op = "load" /\ pc = "Done"
    /\ IF outcome = "raised"
       THEN Finish("crash") /\ UNCHANGED << loaded, shown >>
       ELSE /\ loaded' = result
            /\ shown' = IF result # <<>> THEN masked_key(result) ELSE <<>>
            /\ pc' = "Prompt" /\ UNCHANGED report
    /\ UNCHANGED << fsVars, fsMode, env, op, locals, atCall, fsLog, saved,
                    writes >>
    /\ UNCHANGED << cmd, httpCalls, entry, reply, startExists >>
    /\ UNCHANGED << renderVars, raceVars >>

\* cli.py lines 99-110: Prompt.ask returned x; a value different from
\* config.api_key is given to save_config.
configure_prompt(x) ==
    /\ cmd = "configure" /\ pc = "Prompt"
    /\ entry' = x
    /\ IF EntryDiffers(x, loaded)
       THEN /\ op' = "save" /\ pc' = "SaveMkdir" /\ arg' = x
            /\ atCall' = [dir |-> dirExists, exists |-> fileExists,
                          content |-> file]
            /\ fsLog' = {}
            /\ saved' = [valid |-> FALSE, key |-> x]
            /\ UNCHANGED report
       ELSE /\ Finish("unchanged")
            /\ UNCHANGED << op, arg, atCall, fsLog, saved >>
    /\ UNCHANGED << fsVars, fsMode, env, enc, config_data, result, outcome,
                    writes >>
    /\ UNCHANGED << cmd, httpCalls, loaded, shown, reply, startExists >>
    /\ UNCHANGED << renderVars, raceVars >>

\* cli.py lines 99-110 when the user presses Enter: Prompt.ask returns its
\* default, config.api_key.
configure_enter ==
    /\ pc = "Prompt"
    /\ configure_prompt(loaded)

\* cli.py lines 107-108 once save_config is over.
configure_saved ==
    /\ cmd = "configure" /\ op = "save" /\ pc = "Done"
    /\ IF outcome = "raised" THEN Finish("crash") ELSE Finish("saved")
    /\ UNCHANGED << fsVars, fsMode, env, op, locals, atCall, fsLog, saved,
                    writes >>
    /\ UNCHANGED << cmd, httpCalls, loaded, entry, shown, reply,
                    startExists >>
    /\ UNCHANGED << renderVars, raceVars >>

\* cli.py lines 139-152.
debug(e) ==
    /\ cmd' = "debug"
    /\ StartLoad(e)

\* cli.py lines 152-158 once load_config is over.
debug_show ==
    /\ cmd = "debug" /\ op = "load" /\ pc = "Done"
    /\ IF outcome = "raised"
       THEN Finish("crash") /\ UNCHANGED << loaded, shown >>
       ELSE /\ loaded' = result
            /\ shown' = IF result # <<>> THEN masked_key(result) ELSE <<>>
            /\ Finish("shown")
    /\ UNCHANGED << fsVars, fsMode, env, op, locals, atCall, fsLog, saved,
                    writes >>
    /\ UNCHANGED << cmd, httpCalls, entry, reply, startExists >>
    /\ UNCHANGED << renderVars, raceVars >>

\* The process of the command exits.
cmd_exit ==
    /\ pc = "End"
    /\ op' = "none" /\ pc' = "Idle" /\ env' = <<>>
    /\ arg' = <<>> /\ enc' = 0 /\ config_data' = JNull
    /\ result' = <<>> /\ outcome' = "none"
    /\ atCall' = NoCall /\ fsLog' = {}
    /\ saved' = IF saved.valid THEN saved ELSE NothingSaved
    /\ writes' = 0
    /\ cmd' = "none" /\ httpCalls' = 0
    /\ loaded' = <<>> /\ entry' = <<>> /\ shown' = <<>>
    /\ report' = "none" /\ reply' = "none" /\ startExists' = FALSE
    /\ UNCHANGED << fsVars, fsMode >>
    /\ UNCHANGED << renderVars, raceVars >>

NextCli ==
    \/ \E m \in FsModes : Chmod(m)
    \/ ask_help
    \/ \E e \in CliEnvs : ask(e)
    \/ ask_check_key
    \/ \E r \in Replies : ask_post(r)
    \/ \E e \in CliEnvs : configure(e)
    \/ configure_show
    \/ \E x \in Entries : configure_prompt(x)
    \/ configure_enter
    \/ configure_saved
    \/ \E e \in CliEnvs : debug(e)
    \/ debug_show
    \/ cmd_exit
    \/ TryEnv
    \/ TryFile
    \/ FirstRun
    \/ TryDecode
    \/ AfterLoop
    \/ TryByteRepair
    \/ EmptyDefault
    \/ Sanitize
    \/ SaveMkdir
    \/ SaveOpen
    \/ SaveWrite

SpecCli == Init /\ [][NextCli]_vars


\* ------------------------------------------------------------------------
\* Two invocations in save_config at the same time (config.py:70-77)
\* ------------------------------------------------------------------------

\* Credentials the two invocations save.
RaceChars == {97, 233}
RaceKeys == SeqsUpTo(RaceChars, MaxKeyLen)

\* An exception leaves save_config of invocation p.
RaceRaise(p) == wpc' = [wpc EXCEPT ![p] = "Raised"]

\* Invocation p calls save_config(Config(api_key=k)).
race_call(p, k) ==
    /\ pc = "Idle" /\ rpc = "Idle" /\ wpc[p] = "Idle"
    /\ wpc' = [wpc EXCEPT ![p] = "SaveMkdir"]
    /\ wkey' = [wkey EXCEPT ![p] = k]
    /\ UNCHANGED << configVars, cliVars, renderVars >>

\* Line 72, by invocation p.
race_mkdir(p) ==
    /\ wpc[p] = "SaveMkdir"
    /\ IF MkdirFails
       THEN RaceRaise(p) /\ UNCHANGED dirExists
       ELSE dirExists' = TRUE /\ wpc' = [wpc EXCEPT ![p] = "SaveOpen"]
    /\ UNCHANGED << fileExists, file, fsMode, env, op, pc, locals, atCall,
                    fsLog, saved, writes, wkey >>
    /\ UNCHANGED << cliVars, renderVars >>

\* Lines 74-76, by invocation p: the open truncates the file, whoever
\* wrote it.
race_open(p) ==
    /\ wpc[p] = "SaveOpen"
    /\ wkey' = [wkey EXCEPT ![p] = KeyForSave(wkey[p])]
    /\ IF fsMode = "nowrite"
       THEN RaceRaise(p) /\ UNCHANGED << fileExists, file >>
       ELSE /\ fileExists' = TRUE /\ file' = <<>>
            /\ wpc' = [wpc EXCEPT ![p] = "SaveWrite"]
    /\ UNCHANGED << dirExists, fsMode, env, op, pc, locals, atCall, fsLog,
                    saved, writes >>
    /\ UNCHANGED << cliVars, renderVars >>

\* Line 77, by invocation p: its bytes go to offset 0 of the file as it is
\* now.
race_write(p) ==
    /\ wpc[p] = "SaveWrite"
    /\ IF fsMode = "full"
       THEN RaceRaise(p) /\ UNCHANGED file
       ELSE /\ file' = WriteAtStart(file, SavedBytes(wkey[p]))
            /\ wpc' = [wpc EXCEPT ![p] = "Done"]
    /\ UNCHANGED << dirExists, fileExists, fsMode, env, op, pc, locals,
                    atCall, fsLog, saved, writes, wkey >>
    /\ UNCHANGED << cliVars, renderVars >>

\* Both invocations are over.
BothSaved == \A p \in Writers : wpc[p] = "Done"

\* A later invocation, with no environment credential, calls load_config().
race_load ==
    /\ BothSaved
    /\ call_load_config(<<>>)

\* The later invocation ends; so does the round.
race_return ==
    /\ BothSaved /\ pc = "Done"
    /\ op' = "none" /\ pc' = "Idle" /\ env' = <<>>
    /\ arg' = <<>> /\ enc' = 0 /\ config_data' = JNull
    /\ result' = <<>> /\ outcome' = "none"
    /\ atCall' = NoCall /\ fsLog' = {}
    /\ wpc' = [p \in Writers |-> "Idle"]
    /\ wkey' = [p \in Writers |-> <<>>]
    /\ UNCHANGED << fsVars, fsMode, saved, writes >>
    /\ UNCHANGED << cliVars, renderVars >>

NextRace ==
    \/ \E p \in Writers, k \in RaceKeys : race_call(p, k)
    \/ \E p \in Writers : race_mkdir(p)
    \/ \E p \in Writers : race_open(p)
    \/ \E p \in Writers : race_write(p)
    \/ race_load
    \/ TryEnv
    \/ TryFile
    \/ TryDecode
    \/ AfterLoop
    \/ TryByteRepair
    \/ EmptyDefault
    \/ Sanitize
    \/ race_return

\* The two invocations start with no credential file.
InitRace == Init /\ ~fileExists

SpecRace == InitRace /\ [][NextRace]_vars

\* ------------------------------------------------------------------------
\* Properties
\* ------------------------------------------------------------------------

\* load_config has finished (returned or raised) and not yet been left.
LoadDone == op = "load" /\ pc = "Done"

\* The file system as it was when the function was called.
FsUntouched ==
    /\ dirExists = atCall.dir
    /\ fileExists = atCall.exists
    /\ file = atCall.content

\* bs is well-formed UTF-8 holding one JSON object whose only member is
\* api_key, an ASCII-only string.
IsCleanConfigFile(bs) ==
    /\ Utf8Valid(bs)
    /\ LET r == json_loads(DecodeUtf8(bs))
       IN  /\ r.ok
           /\ r.v.t = "obj"
           /\ Len(r.v.members) = 1
           /\ r.v.members[1][1] = ApiKeyName
           /\ r.v.members[1][2].t = "str"
           /\ IsAscii(r.v.members[1][2].s)

\* C1: with no environment credential and the credential file present,
\* load_config returns and never raises, whatever bytes the file holds, and
\* the credential it returns is empty unless a JSON object was parsed.
C1_LoadReturnsOnAnyFile ==
    (LoadDone /\ env = <<>> /\ atCall.exists)
        => /\ outcome = "returned"
           /\ (config_data.t # "obj" => result = <<>>)

\* C1 witness: binary garbage in the file, load_config returned the empty
\* credential.
C1_Witness ==
    /\ LoadDone /\ env = <<>> /\ atCall.exists
    /\ atCall.content = FileGarbage
    /\ outcome = "returned" /\ result = <<>>

\* C2: every credential load_config returns, from the environment or from
\* the file by any decode attempt, the byte repair or the empty default,
\* holds only code points below 128.
C2_CredentialAscii ==
    (LoadDone /\ outcome = "returned") => IsAscii(result)

\* C2 witness: a file whose key holds a non-ASCII character was loaded and
\* a non-empty ASCII credential returned.
C2_Witness ==
    /\ LoadDone /\ env = <<>> /\ outcome = "returned"
    /\ atCall.content = FileUtf8
    /\ result = <<97, 101>>

\* C3: when PERPLEXITY_API_KEY is set and non-empty, load_config returns
\* sanitize_api_key of it, also when that is the empty string, whatever the
\* state of the file, and neither tests, reads, creates nor writes the file
\* or its directory.
C3_EnvWins ==
    (LoadDone /\ env # <<>>)
        => /\ outcome = "returned"
           /\ result = sanitize_api_key(env)
           /\ fsLog = {}
           /\ FsUntouched

\* C3 witness: the environment value sanitizes to the empty string while
\* the file holds a usable key; the empty credential was returned.
C3_Witness ==
    /\ LoadDone /\ env = <<8364>>
    /\ atCall.exists /\ atCall.content = FileUtf8
    /\ result = <<>>

\* C4: a load_config with no environment credential that follows a
\* save_config(Config(api_key=s)) returns sanitize_api_key(s), which is s
\* itself when s is ASCII (the file being readable).
C4_SaveThenLoad ==
    (LoadDone /\ env = <<>> /\ saved.valid /\ fsMode # "noread")
        => /\ outcome = "returned"
           /\ result = sanitize_api_key(saved.key)
           /\ (IsAscii(saved.key) => result = saved.key)

\* C4 witness: the credential of a quote and a line feed was saved and
\* loaded back.
C4_Witness ==
    /\ LoadDone /\ env = <<>> /\ saved.valid
    /\ saved.key = <<34, 10>>
    /\ result = <<34, 10>>

\* C5: with no environment credential and no credential file, load_config
\* makes the directory exist, writes a UTF-8 file holding the JSON object
\* {"api_key": ""} and returns the empty credential (the file system
\* accepting the calls).
C5_FirstRunCreatesFile ==
    (LoadDone /\ env = <<>> /\ ~atCall.exists /\ fsMode = "ok")
        => /\ outcome = "returned"
           /\ result = <<>>
           /\ dirExists /\ fileExists
           /\ Utf8Valid(file)
           /\ LET r == json_loads(DecodeUtf8(file))
              IN  r.ok /\ r.v = JObj(<< <<ApiKeyName, JStr(<<>>)>> >>)

\* C5 witness: neither the directory nor the file existed; both exist now.
C5_Witness ==
    /\ LoadDone /\ env = <<>> /\ fsMode = "ok"
    /\ ~atCall.dir /\ ~atCall.exists
    /\ dirExists /\ fileExists /\ outcome = "returned"

\* C6: after a save_config that returned, whatever the file held before
\* and whatever credential was saved, the file is well-formed UTF-8 JSON
\* holding one object whose api_key is an ASCII-only string.
C6_SavedFileClean ==
    (pc = "Done" /\ outcome = "returned" /\ "write" \in fsLog)
        => IsCleanConfigFile(file)

\* C6 witness: a non-ASCII credential was saved over a file of binary
\* garbage.
C6_Witness ==
    /\ op = "save" /\ pc = "Done" /\ outcome = "returned"
    /\ atCall.content = FileGarbage
    /\ saved.key = <<8364, 233>>
    /\ file = SavedBytes(<<101>>)

\* C7 (as claimed): with no environment credential and the file absent,
\* load_config returns the empty credential whatever fails inside it.
C7_LoadNeverRaises ==
    (LoadDone /\ env = <<>> /\ ~atCall.exists)
        => (outcome = "returned" /\ result = <<>>)

\* C8 (as claimed): a save_config that fails leaves the credential file as
\* it was before the call.
C8_FailedSaveKeepsFile ==
    (op = "save" /\ pc = "Done" /\ outcome = "raised")
        => (fileExists = atCall.exists /\ file = atCall.content)

\* C9: sanitize_api_key is idempotent: the key save_config is about to
\* write is sanitize_api_key of the key it was given, and sanitizing it
\* again changes nothing; the empty input gives the empty string.
C9_SanitizeIdempotent ==
    /\ (pc = "SaveWrite" /\ op = "save")
          => /\ arg = sanitize_api_key(saved.key)
             /\ sanitize_api_key(arg) = arg
    /\ sanitize_api_key(<<>>) = <<>>

\* C9 witness: e-acute and a euro sign were sanitized to e.
C9_Witness ==
    /\ pc = "SaveWrite" /\ op = "save"
    /\ saved.key = <<233, 8364>>
    /\ arg = <<101>>

\* C10: sanitize_api_key leaves an ASCII string as it is, line feeds and
\* quotes included: an ASCII environment credential is returned unchanged
\* and an ASCII key is written unchanged.
C10_SanitizeAsciiIdentity ==
    /\ (LoadDone /\ env # <<>> /\ IsAscii(env)) => result = env
    /\ (pc = "SaveWrite" /\ op = "save" /\ IsAscii(saved.key))
          => arg = saved.key

\* C10 witness: a line feed and a quote came back from the environment.
C10_Witness ==
    /\ LoadDone /\ env = <<10, 34>>
    /\ result = <<10, 34>>

\* Every decode attempt of lines 38-47 fails on the file as it is.
AllAttemptsFail ==
    \/ fsMode = "noread"
    \/ \A i \in 1..Len(encodings) : ~json_loads(Decode(file, encodings[i])).ok

\* C14 (as claimed): the byte repair of lines 51-59 is attempted only after
\* all four decode attempts failed to parse.
C14_RepairOnlyAfterAllFailed ==
    pc = "TryByteRepair" => AllAttemptsFail

\* The lines format_response printed of the given kind.
LinesOf(kind) == {i \in DOMAIN out : out[i].kind = kind}

\* The response's text or header holds a character the output encoding
\* cannot represent.
Unrepresentable ==
    \/ ~Encodable(Header(response.model), codec)
    \/ ~Encodable(NFKC(response.content), codec)

\* C11 (as claimed): rendering a response whose text or header holds a
\* character the output encoding cannot represent never raises out of
\* format_response; when printing the text failed exactly one notice line
\* was printed and the lines printed after the failure are ASCII.
C11_RenderNeverRaises ==
    (rpc = "Done" /\ response.shape = "ok" /\ Unrepresentable)
        => /\ ~rraised
           /\ ~Encodable(NFKC(response.content), codec)
                 => /\ Cardinality(LinesOf("notice")) = 1
                    /\ Cardinality(LinesOf("ascii")) = 1
           /\ \A i \in LinesOf("notice") \cup LinesOf("ascii") :
                 IsAscii(out[i].text)

\* C12: when load_config gave ask an empty credential, the command ends
\* with the message that tells to run configure or to set the environment
\* variable, printed by the handler of the command, and client.post is
\* never called; a request is only ever made with a non-empty credential.
C12_NoKeyNoRequest ==
    /\ (cmd = "ask" /\ op = "load" /\ pc \in {"Post", "End"}
            /\ outcome = "returned" /\ result = <<>>)
          => /\ pc = "End" /\ report = "unconfigured"
             /\ httpCalls = 0 /\ reply = "none"
    /\ (cmd = "ask" /\ httpCalls > 0) => result # <<>>

\* C12 witness: the environment credential sanitized to the empty string
\* and ask ended with the message, without a request.
C12_Witness ==
    /\ cmd = "ask" /\ pc = "End" /\ env = <<8364>>
    /\ result = <<>> /\ report = "unconfigured" /\ httpCalls = 0

\* C13 (as claimed): one ask makes at most one client.post, and after a
\* timeout, a network error or a non-2xx response it ends with an error
\* message and no unhandled exception.
C13_FailureReported ==
    /\ httpCalls <= 1
    /\ (cmd = "ask" /\ pc = "End" /\ reply \in Failures)
          => report = "error"

\* C15 (as claimed): one invocation of a command writes the credential
\* file at most once.
C15_WrittenAtMostOnce == writes <= 1

\* C15: one invocation of a command opens the credential file for writing
\* at most twice; ask and debug at most once; twice only in a configure
\* that found neither an environment credential nor the file, created the
\* file in load_config and then saved an entry different from the loaded
\* credential.
C15_WrittenAtMostTwice ==
    /\ writes <= 2
    /\ cmd \in {"ask", "debug"} => writes <= 1
    /\ writes = 2 => /\ cmd = "configure" /\ op = "save"
                     /\ ~startExists /\ env = <<>>
                     /\ loaded = <<>> /\ entry # loaded

\* C15 witness: a configure that wrote the file twice and ended.
C15_Witness ==
    /\ cmd = "configure" /\ pc = "End" /\ report = "saved"
    /\ writes = 2 /\ ~startExists

\* C16: during a command that found the credential file, or that runs
\* with an environment credential, the file is opened for writing, created
\* or changed only by the save of a configure whose entry differs from the
\* loaded credential; load_config, ask, debug and a configure that keeps
\* the current value leave its bytes as they are.
C16_FileKept ==
    [][ ( /\ startExists \/ env # <<>>
          /\ file' # file \/ fileExists' # fileExists \/ writes' > writes )
            => (cmd = "configure" /\ op = "save" /\ entry # loaded) ]_vars

\* C16 witness: configure loaded a credential from the file, the user kept
\* it, and the file is as it was.
C16_Witness ==
    /\ cmd = "configure" /\ pc = "End" /\ report = "unchanged"
    /\ startExists /\ env = <<>> /\ loaded # <<>> /\ entry = loaded
    /\ file = atCall.content /\ writes = 0

\* C18 (as claimed): the masked key configure and debug print for a
\* non-empty credential is as long as the credential, is not the
\* credential, and differs from it in every character between the first 5
\* and the last 4.
C18_MaskHidesKey ==
    (cmd \in {"configure", "debug"} /\ loaded # <<>>)
        => /\ Len(shown) = Len(loaded)
           /\ shown # loaded
           /\ \A i \in 1..Len(loaded) :
                 (i > 5 /\ i <= Len(loaded) - 4) => shown[i] = 42

\* C17 (as claimed): when two invocations have run save_config on the same
\* file, their open and write steps interleaved in any order, the file
\* holds exactly the JSON one of the two wrote, and a later load_config
\* returns one of the two sanitized credentials.
C17_LastWriterWins ==
    BothSaved
        => /\ file \in {SavedBytes(wkey[p]) : p \in Writers}
           /\ LoadDone => /\ outcome = "returned"
                           /\ result \in {wkey[p] : p \in Writers}

====
